---- MODULE Spec2Model ----
(***************************************************************************)
(* Model of the SkillSwap server's matching engine (routes/users.js):      *)
(* the compatibility scorer, the ranking handler GET /api/users/matches    *)
(* and the detail handler GET /api/users/:id/match-details, over the user  *)
(* store defined by models/User.js; further down, the ratings (POST         *)
(* /api/ratings) and the life cycle of the swap requests (routes/swaps.js   *)
(* and the admin's moderation), each with its requests in flight.           *)
(*                                                                         *)
(* Representation.  A JavaScript string is a sequence of one-character     *)
(* strings; the empty sequence stands for every falsy location (undefined, *)
(* null, "").  Sub-scores are kept in tenths of a point (skillMatch 14 is  *)
(* 140), averageRating in tenths of a star, totalScore in hundredths of a  *)
(* point, and timestamps in milliseconds; every value the code can produce *)
(* from a stored profile is exact in these units, so the double arithmetic *)
(* of the code, which is off by far less than the 0.005 the final          *)
(* Math.round absorbs, is modelled by exact integer arithmetic.            *)
(***************************************************************************)
EXTENDS Integers, Sequences, FiniteSets, TLC

VARIABLES users, now, resp, swapRequests, ratings, procs

vars == <<users, now, resp, swapRequests, ratings, procs>>

----------------------------------------------------------------------------
(* Bounds of the model *)

\* longest skill list drawn for one side of one match direction
MaxSkills == 2

\* most users ever registered
MaxUsers == 4

----------------------------------------------------------------------------
(* JavaScript helpers *)

Min(a, b) == IF a < b THEN a ELSE b

Max(a, b) == IF a > b THEN a ELSE b

\* the letters whose case matters in the modelled strings
UpperToLower == [c \in {"P", "Y", "G", "O", "A", "B"} |->
                    CASE c = "P" -> "p" [] c = "Y" -> "y" [] c = "G" -> "g"
                      [] c = "O" -> "o" [] c = "A" -> "a" [] c = "B" -> "b"]

\* String.prototype.toLowerCase
toLowerCase(s) == [i \in 1..Len(s) |->
                     IF s[i] \in DOMAIN UpperToLower THEN UpperToLower[s[i]] ELSE s[i]]

\* String.prototype.includes: t occurs in s as a contiguous substring
includes(s, t) == \E i \in 0..(Len(s) - Len(t)) :
                     \A k \in 1..Len(t) : s[i + k] = t[k]

\* String.prototype.split(sep) for a one-character separator
RECURSIVE split(_, _)
split(s, sep) ==
    IF \A i \in 1..Len(s) : s[i] # sep
    THEN <<s>>
    ELSE LET i == CHOOSE j \in 1..Len(s) :
                      s[j] = sep /\ \A k \in 1..(j - 1) : s[k] # sep
         IN  <<SubSeq(s, 1, i - 1)>> \o split(SubSeq(s, i + 1, Len(s)), sep)

\* String.prototype.trim
RECURSIVE trim(_)
trim(s) == IF s # <<>> /\ Head(s) = " " THEN trim(Tail(s))
           ELSE IF s # <<>> /\ s[Len(s)] = " " THEN trim(SubSeq(s, 1, Len(s) - 1))
           ELSE s

\* Array.prototype.find with the name comparison of the scorers, from entry
\* j on: the entries are read in order and none after the first match
RECURSIVE findFrom(_, _, _)
findFrom(list, name, j) ==
    IF j > Len(list) THEN 0
    ELSE IF toLowerCase(list[j].name) = toLowerCase(name) THEN j
    ELSE findFrom(list, name, j + 1)

\* the index of the first entry of list whose lower-cased name equals that
\* of name, 0 when there is none
find(list, name) == findFrom(list, name, 1)

\* Math.round(x / 10) for an integer x: half rounds towards +Infinity
MathRound10(x) == (x + 5) \div 10

\* A value of req.query as the handlers receive it: undefined when the
\* parameter is absent, else a string; a destructuring default is a number.
undefined == [type |-> "undefined"]

Num(n) == [type |-> "number", n |-> n]

Str(s) == [type |-> "string", s |-> s]

DigitChars == <<"0", "1", "2", "3", "4", "5", "6", "7", "8", "9">>

\* the decimal numeral of a natural number
RECURSIVE NumberToString(_)
NumberToString(n) ==
    IF n < 10 THEN <<DigitChars[n + 1]>>
    ELSE NumberToString(n \div 10) \o <<DigitChars[(n % 10) + 1]>>

\* the value of a string of decimal digits
RECURSIVE StringToNumber(_)
StringToNumber(s) ==
    IF s = <<>> THEN 0
    ELSE StringToNumber(SubSeq(s, 1, Len(s) - 1)) * 10
         + (CHOOSE d \in 0..9 : DigitChars[d + 1] = s[Len(s)])

\* ToNumber, applied by the operators - * < > and by slice
ToNumber(v) == IF v.type = "number" THEN v.n ELSE StringToNumber(v.s)

ToStr(v) == IF v.type = "string" THEN v.s ELSE NumberToString(v.n)

\* the operator + : concatenation as soon as one operand is a string
Plus(a, b) == IF a.type = "string" \/ b.type = "string"
              THEN Str(ToStr(a) \o ToStr(b))
              ELSE Num(a.n + b.n)

\* Array.prototype.slice(start, end) for start, end >= 0
slice(list, start, end) == SubSeq(list, start + 1, Min(end, Len(list)))

\* a truthy query parameter: given and not the empty string
Truthy(v) == v.type = "string" /\ v.s # <<>>

\* milliseconds in a day, 1000 * 60 * 60 * 24
MsPerDay == 1000 * 60 * 60 * 24

----------------------------------------------------------------------------
(* The scorers *)

\* levelScore * priorityMultiplier, in tenths
calculateLevelCompatibility(wantedPriority, offeredLevel) ==
    LET levelScore == CASE offeredLevel = "beginner" -> 1
                        [] offeredLevel = "intermediate" -> 2
                        [] offeredLevel = "advanced" -> 3
                        [] offeredLevel = "expert" -> 4
                        [] OTHER -> 1
        priorityMultiplier == CASE wantedPriority = "low" -> 5
                                [] wantedPriority = "medium" -> 10
                                [] wantedPriority = "high" -> 15
                                [] OTHER -> 10
    IN  levelScore * priorityMultiplier

\* the base score added before the match is tested
SkillMatchOf_BaseBeforeMatch(wantedSkill, skillsOffered) ==
    LET j == find(skillsOffered, wantedSkill.name)
    IN  50 + (IF j = 0 THEN 0
              ELSE (IF wantedSkill.priority = "high" THEN 30
                    ELSE IF wantedSkill.priority = "medium" THEN 20 ELSE 10)
                   + calculateLevelCompatibility(wantedSkill.priority,
                                                 skillsOffered[j].level))

\* the matchScore of one wanted skill of the current user, in tenths
SkillMatchOf(wantedSkill, skillsOffered) ==
    LET j == find(skillsOffered, wantedSkill.name)
    IN  IF j = 0 THEN 0
        ELSE 50
             + (IF wantedSkill.priority = "high" THEN 30
                ELSE IF wantedSkill.priority = "medium" THEN 20 ELSE 10)
             + calculateLevelCompatibility(wantedSkill.priority, skillsOffered[j].level)

RECURSIVE SkillMatchSum(_, _)
SkillMatchSum(skillsWanted, skillsOffered) ==
    IF skillsWanted = <<>> THEN 0
    ELSE SkillMatchOf(Head(skillsWanted), skillsOffered)
         + SkillMatchSum(Tail(skillsWanted), skillsOffered)

\* the number of entries pushed to skillMatches
SkillMatchCount(skillsWanted, skillsOffered) ==
    Cardinality({i \in 1..Len(skillsWanted) : find(skillsOffered, skillsWanted[i].name) # 0})

\* the cap of 20 points forgotten
calculateSkillMatchScore_Uncapped(currentUser, otherUser) ==
    SkillMatchSum(currentUser.skillsWanted, otherUser.skillsOffered)

calculateSkillMatchScore(currentUser, otherUser) ==
    Min(SkillMatchSum(currentUser.skillsWanted, otherUser.skillsOffered), 200)

\* the matchScore of one offered skill of the current user, in tenths
MutualMatchOf(offeredSkill, skillsWanted) ==
    LET j == find(skillsWanted, offeredSkill.name)
    IN  IF j = 0 THEN 0
        ELSE 80
             + (IF skillsWanted[j].priority = "high" THEN 40
                ELSE IF skillsWanted[j].priority = "medium" THEN 20 ELSE 10)
             + calculateLevelCompatibility(skillsWanted[j].priority, offeredSkill.level)

RECURSIVE MutualMatchSum(_, _)
MutualMatchSum(skillsOffered, skillsWanted) ==
    IF skillsOffered = <<>> THEN 0
    ELSE MutualMatchOf(Head(skillsOffered), skillsWanted)
         + MutualMatchSum(Tail(skillsOffered), skillsWanted)

\* the counter mutualMatches
MutualMatchCount(skillsOffered, skillsWanted) ==
    Cardinality({i \in 1..Len(skillsOffered) : find(skillsWanted, skillsOffered[i].name) # 0})

\* 5 points for every mutual match instead of every additional one
calculateMutualBenefitScore_BonusPerMatch(currentUser, otherUser) ==
    LET score == MutualMatchSum(currentUser.skillsOffered, otherUser.skillsWanted)
        mutualMatches == MutualMatchCount(currentUser.skillsOffered, otherUser.skillsWanted)
    IN  Min(score + mutualMatches * 50, 250)

calculateMutualBenefitScore(currentUser, otherUser) ==
    LET score == MutualMatchSum(currentUser.skillsOffered, otherUser.skillsWanted)
        mutualMatches == MutualMatchCount(currentUser.skillsOffered, otherUser.skillsWanted)
    IN  Min(score + (IF mutualMatches > 1 THEN (mutualMatches - 1) * 50 ELSE 0), 250)

calculateLocationScore(currentLocation, otherLocation) ==
    IF currentLocation = <<>> \/ otherLocation = <<>> THEN 0
    ELSE LET current == toLowerCase(currentLocation)
             other == toLowerCase(otherLocation)
             currentParts == split(current, ",")
             otherParts == split(other, ",")
         IN  IF current = other THEN 100
             ELSE IF includes(current, otherParts[1]) \/ includes(other, currentParts[1])
                  THEN 80
             ELSE IF /\ Len(currentParts) > 1
                     /\ Len(otherParts) > 1
                     /\ trim(currentParts[2]) = trim(otherParts[2])
                  THEN 50
             ELSE 0

\* Math.ceil in place of Math.floor
daysSinceLastActive_Ceil(lastActive, t) == (t - lastActive + MsPerDay - 1) \div MsPerDay

\* Math.floor((Date.now() - new Date(lastActive)) / MsPerDay)
daysSinceLastActive(lastActive, t) == (t - lastActive) \div MsPerDay

\* the weights of the two skill factors exchanged
WeightedSum_SkillWeightsSwapped(skill, mutual, rating, activity, location) ==
    skill * 30 + mutual * 40 + rating * 15 + activity * 10 + location * 5

\* the value of totalScore after its five increments, in thousandths
WeightedSum(skill, mutual, rating, activity, location) ==
    skill * 40 + mutual * 30 + rating * 15 + activity * 10 + location * 5

\* Math.max in place of Math.min
ratingScore_MathMax(otherUser) == Max(otherUser.averageRating * 2, 100)

\* Math.min(otherUser.averageRating * 2, 10), in tenths
ratingScore(otherUser) == Min(otherUser.averageRating * 2, 100)

calculateCompatibilityScore(currentUser, otherUser, t) ==
    LET skillMatchScore == calculateSkillMatchScore(currentUser, otherUser)
        mutualBenefitScore == calculateMutualBenefitScore(currentUser, otherUser)
        activityScore == Max(0, 10 - daysSinceLastActive(otherUser.lastActive, t)) * 10
        locationScore == calculateLocationScore(currentUser.location, otherUser.location)
        totalScore == WeightedSum(skillMatchScore, mutualBenefitScore,
                                  ratingScore(otherUser), activityScore, locationScore)
    IN  [totalScore |-> MathRound10(totalScore),
         breakdown |-> [skillMatch |-> skillMatchScore,
                        mutualBenefit |-> mutualBenefitScore,
                        ratingBonus |-> ratingScore(otherUser),
                        activityBonus |-> activityScore,
                        locationBonus |-> locationScore]]

----------------------------------------------------------------------------
(* Exceptions.  A profile passed as null has no property to read, and a    *)
(* skill record without a name (a record without the field) has no name to *)
(* lower-case: the first such read throws a TypeError.  A missing level or *)
(* priority reads as undefined and is written "undefined": the code only   *)
(* compares it with literals and uses it as a key of the score tables.     *)

null == [type |-> "null"]

\* the find of the scorers and of the explainer throws: its callback reads
\* .name.toLowerCase() of every entry of list up to the first match, and of
\* skill, and one of the records read has no name
findThrows(list, skill) ==
    /\ list # <<>>
    /\ \/ "name" \notin DOMAIN skill
       \/ \E j \in 1..Len(list) :
             /\ "name" \notin DOMAIN list[j]
             /\ \A k \in 1..(j - 1) :
                   /\ "name" \in DOMAIN list[k]
                   /\ toLowerCase(list[k].name) # toLowerCase(skill.name)

calculateSkillMatchScoreThrows(currentUser, otherUser) ==
    \E i \in 1..Len(currentUser.skillsWanted) :
        findThrows(otherUser.skillsOffered, currentUser.skillsWanted[i])

calculateMutualBenefitScoreThrows(currentUser, otherUser) ==
    \E i \in 1..Len(currentUser.skillsOffered) :
        findThrows(otherUser.skillsWanted, currentUser.skillsOffered[i])

\* calculateCompatibilityScore does not return: currentUser.skillsWanted of
\* a null currentUser, otherUser.skillsOffered or at the latest
\* otherUser.averageRating of a null otherUser, or a find that throws
calculateCompatibilityScoreThrows(currentUser, otherUser) ==
    \/ currentUser = null
    \/ otherUser = null
    \/ calculateSkillMatchScoreThrows(currentUser, otherUser)
    \/ calculateMutualBenefitScoreThrows(currentUser, otherUser)

\* findSkillMatches does not return: currentUser.skillsOffered of a null
\* currentUser, otherUser.skillsOffered of a null otherUser, or one of the
\* finds of its three loops throws
findSkillMatchesThrows(currentUser, otherUser) ==
    \/ currentUser = null
    \/ otherUser = null
    \/ \E i \in 1..Len(currentUser.skillsOffered) :
          findThrows(otherUser.skillsWanted, currentUser.skillsOffered[i])
    \/ \E i \in 1..Len(otherUser.skillsOffered) :
          findThrows(currentUser.skillsWanted, otherUser.skillsOffered[i])
    \/ \E i \in 1..Len(currentUser.skillsOffered) :
          findThrows(otherUser.skillsOffered, currentUser.skillsOffered[i])

\* what a call that threw leaves to its caller
Thrown(call) == [kind |-> "error", call |-> call, error |-> "TypeError"]

----------------------------------------------------------------------------
(* The user store (models/User.js) *)

Levels == {"beginner", "intermediate", "advanced", "expert"}

Priorities == {"low", "medium", "high"}

\* a document as User.create stores it at time t: the schema defaults
NewUser(id, location, profileType, t) ==
    [_id |-> id, skillsOffered |-> <<>>, skillsWanted |-> <<>>,
     location |-> location, profileType |-> profileType,
     availability |-> [weekdays |-> FALSE, weekends |-> TRUE,
                       evenings |-> TRUE, mornings |-> FALSE],
     isActive |-> TRUE, isBanned |-> FALSE,
     averageRating |-> 0, totalRatings |-> 0, lastActive |-> t]

NoResp == [kind |-> "none"]

----------------------------------------------------------------------------
(* Inputs of the scorer *)

SeqsUpTo(S, n) == UNION {[1..k -> S] : k \in 0..n}

Py == <<"P", "y">>

pY == <<"p", "Y">>

Go == <<"G", "o">>

Wanted(name, priority) == [name |-> name, priority |-> priority]

Offered(name, level) == [name |-> name, level |-> level]

\* every skillsWanted / skillsOffered list of at most MaxSkills entries
WantedLists == SeqsUpTo([name : {Py, Go}, priority : Priorities], MaxSkills)

OfferedLists == SeqsUpTo([name : {pY, Go}, level : Levels], MaxSkills)

\* a few lists: none, one match, the other match, two matches
SomeWantedLists == {<<>>, <<Wanted(Py, "high")>>, <<Wanted(Go, "medium")>>,
                    <<Wanted(Py, "high"), Wanted(Go, "medium")>>}

SomeOfferedLists == {<<>>, <<Offered(pY, "expert")>>, <<Offered(Go, "advanced")>>,
                     <<Offered(Go, "advanced"), Offered(pY, "expert")>>}

\* "A, B", "a, b" (the same but for case), "a" (its city), "O,b" (its
\* region), "O", "B" (a city named like its region)
SomeLocations == {<<>>, <<"A", ",", " ", "B">>, <<"a", ",", " ", "b">>, <<"a">>,
                  <<"O", ",", "b">>, <<"O">>, <<"B">>}

\* the evaluation time Date.now() of the scored request
EvalTime == 20 * MsPerDay

\* lastActive a whole number of days before (or after) EvalTime, or 1 ms
\* later.  Date.now() is the wall clock of the process that answers: it can
\* be behind the clock that stamped lastActive (another instance, a clock
\* stepped back), so a lastActive later than the evaluation time is drawn too.
LastActiveTimes == {EvalTime - d * MsPerDay + e : d \in (0 - 2)..16, e \in {0, 1}}

SomeLastActiveTimes == {EvalTime - 15 * MsPerDay, EvalTime - 10 * MsPerDay + 1,
                        EvalTime - MsPerDay, EvalTime, EvalTime + 1}

\* the averageRating a profile can hold, in tenths: the default 0 of a user
\* never rated, or the rounded mean of ratings that each lie in [1, 5]
AverageRatings == {0} \cup 10..50

\* what one side of a scored pair looks like, all other fields as created; a
\* mean of r tenths is that of ten ratings whose tenths sum to 10 * r
Profile(id, offered, wanted, location, rating, lastActive) ==
    [NewUser(id, location, "public", lastActive) EXCEPT
        !.skillsOffered = offered, !.skillsWanted = wanted, !.averageRating = rating,
        !.totalRatings = IF rating = 0 THEN 0 ELSE 10]

\* the skill-match direction over all lists
InitSkillMatch ==
    \E w \in WantedLists, o \in OfferedLists :
        users = <<Profile(1, <<>>, w, <<>>, 0, EvalTime),
                  Profile(2, o, <<>>, <<>>, 0, EvalTime)>>

\* the mutual-benefit direction over all lists
InitMutualBenefit ==
    \E o \in OfferedLists, w \in WantedLists :
        users = <<Profile(1, o, <<>>, <<>>, 0, EvalTime),
                  Profile(2, <<>>, w, <<>>, 0, EvalTime)>>

\* every lastActive, rating and pair of locations
InitBonuses ==
    \E r \in AverageRatings, la \in LastActiveTimes, l1 \in {<<>>, <<"A", ",", " ", "B">>},
       l2 \in SomeLocations :
        users = <<Profile(1, <<>>, <<>>, l1, 0, EvalTime),
                  Profile(2, <<>>, <<>>, l2, r, la)>>

\* all five factors together
InitCombined ==
    \E o1 \in SomeOfferedLists, w1 \in SomeWantedLists,
       o2 \in SomeOfferedLists, w2 \in SomeWantedLists,
       r \in {0, 48, 50}, la \in SomeLastActiveTimes,
       l2 \in {<<>>, <<"a", ",", " ", "b">>, <<"a">>, <<"O", ",", "b">>} :
        users = <<Profile(1, o1, w1, <<"A", ",", " ", "B">>, 0, EvalTime),
                  Profile(2, o2, w2, l2, r, la)>>

InitScore ==
    /\ InitSkillMatch \/ InitMutualBenefit \/ InitBonuses \/ InitCombined
    /\ now = EvalTime
    /\ resp = NoResp
    /\ swapRequests = <<>>
    /\ ratings = <<>>
    /\ procs = <<>>

\* one call calculateCompatibilityScore(currentUser, otherUser)
Score ==
    /\ resp = NoResp
    /\ resp' = IF calculateCompatibilityScoreThrows(users[1], users[2])
               THEN Thrown("calculateCompatibilityScore")
               ELSE [kind |-> "score",
                     score |-> calculateCompatibilityScore(users[1], users[2], now)]
    /\ UNCHANGED <<users, now, swapRequests, ratings, procs>>

----------------------------------------------------------------------------
(* The explainer *)

\* the entries pushed to youCanTeach: the skills of offered that wanted names
RECURSIVE YouCanTeach(_, _)
YouCanTeach(offered, wanted) ==
    IF offered = <<>> THEN <<>>
    ELSE LET j == find(wanted, Head(offered).name)
         IN  (IF j = 0 THEN <<>>
              ELSE <<[skill |-> Head(offered).name, yourLevel |-> Head(offered).level,
                      theirPriority |-> wanted[j].priority]>>)
             \o YouCanTeach(Tail(offered), wanted)

RECURSIVE TheyCanTeach(_, _)
TheyCanTeach(offered, wanted) ==
    IF offered = <<>> THEN <<>>
    ELSE LET j == find(wanted, Head(offered).name)
         IN  (IF j = 0 THEN <<>>
              ELSE <<[skill |-> Head(offered).name, theirLevel |-> Head(offered).level,
                      yourPriority |-> wanted[j].priority]>>)
             \o TheyCanTeach(Tail(offered), wanted)

RECURSIVE MutualMatches(_, _)
MutualMatches(offered, otherOffered) ==
    IF offered = <<>> THEN <<>>
    ELSE LET j == find(otherOffered, Head(offered).name)
         IN  (IF j = 0 THEN <<>>
              ELSE <<[skill |-> Head(offered).name, yourLevel |-> Head(offered).level,
                      theirLevel |-> otherOffered[j].level]>>)
             \o MutualMatches(Tail(offered), otherOffered)

findSkillMatches(currentUser, otherUser) ==
    [youCanTeach |-> YouCanTeach(currentUser.skillsOffered, otherUser.skillsWanted),
     theyCanTeach |-> TheyCanTeach(otherUser.skillsOffered, currentUser.skillsWanted),
     mutualMatches |-> MutualMatches(currentUser.skillsOffered, otherUser.skillsOffered)]

\* one call findSkillMatches(currentUser, otherUser)
Explain ==
    /\ resp = NoResp
    /\ resp' = IF findSkillMatchesThrows(users[1], users[2])
               THEN Thrown("findSkillMatches")
               ELSE [kind |-> "skillMatches",
                     skillMatches |-> findSkillMatches(users[1], users[2])]
    /\ UNCHANGED <<users, now, swapRequests, ratings, procs>>

NextScore == Score \/ Explain

SpecScore == InitScore /\ [][NextScore]_vars

----------------------------------------------------------------------------
(* Inputs outside the schema: malformed skill records and null profiles *)

\* a well-formed entry, one with an empty name and a value outside the
\* enumeration, one without a name, one without a priority or level
MalformedWanted == <<Wanted(Py, "high"), Wanted(<<>>, "urgent"), [priority |-> "high"],
                     Wanted(Go, "undefined")>>

MalformedOffered == <<Offered(pY, "expert"), Offered(<<>>, "guru"), [level |-> "expert"],
                      Offered(Go, "undefined")>>

\* every list of at most MaxSkills entries of pool
ListsOf(pool) == UNION {{[i \in 1..k |-> pool[f[i]]] : f \in [1..k -> 1..Len(pool)]} :
                           k \in 0..MaxSkills}

InitMalformedSkillMatch ==
    \E w \in ListsOf(MalformedWanted), o \in ListsOf(MalformedOffered) :
        users = <<Profile(1, <<>>, w, <<>>, 0, EvalTime),
                  Profile(2, o, <<>>, <<>>, 0, EvalTime)>>

InitMalformedMutualBenefit ==
    \E o \in ListsOf(MalformedOffered), w \in ListsOf(MalformedWanted) :
        users = <<Profile(1, o, <<>>, <<>>, 0, EvalTime),
                  Profile(2, <<>>, w, <<>>, 0, EvalTime)>>

\* the current profile, the candidate or both are null
InitNullProfile ==
    \E o \in SomeOfferedLists, w \in SomeWantedLists :
        \/ users = <<null, Profile(2, o, w, <<>>, 0, EvalTime)>>
        \/ users = <<Profile(1, o, w, <<>>, 0, EvalTime), null>>
        \/ users = <<null, null>>

InitInvalid ==
    /\ InitMalformedSkillMatch \/ InitMalformedMutualBenefit \/ InitNullProfile
    /\ now = EvalTime
    /\ resp = NoResp
    /\ swapRequests = <<>>
    /\ ratings = <<>>
    /\ procs = <<>>

SpecInvalid == InitInvalid /\ [][NextScore]_vars

----------------------------------------------------------------------------
(* The handlers of routes/users.js and the operations that feed the store *)

\* the time at which the server starts
StartTime == 20 * MsPerDay

Init ==
    /\ users = <<>>
    /\ now = StartTime
    /\ resp = NoResp
    /\ swapRequests = <<>>
    /\ ratings = <<>>
    /\ procs = <<>>

\* POST /api/auth/register
Register(location, profileType) ==
    /\ resp = NoResp
    /\ Len(users) < MaxUsers
    /\ users' = Append(users, NewUser(Len(users) + 1, location, profileType, now))
    /\ UNCHANGED <<now, resp, swapRequests, ratings, procs>>

\* PUT /api/auth/profile by user u; a field that is undefined is left alone
UpdateProfile(u, location, profileType) ==
    /\ resp = NoResp
    /\ u \in 1..Len(users)
    /\ users' = [users EXCEPT
          ![u].location = IF location = undefined THEN @ ELSE location.s,
          ![u].profileType = IF profileType = undefined THEN @ ELSE profileType.s]
    /\ users' # users
    /\ UNCHANGED <<now, resp, swapRequests, ratings, procs>>

\* PUT /api/admin/users/:id/ban by an administrator
Ban(id, ban) ==
    /\ resp = NoResp
    /\ id \in 1..Len(users)
    /\ users[id].isBanned # ban
    /\ users' = [users EXCEPT ![id].isBanned = ban]
    /\ UNCHANGED <<now, resp, swapRequests, ratings, procs>>

\* a result placed before the results of equal score
InsertByScore_TiesReversed(sorted, x) ==
    LET k == Cardinality({i \in 1..Len(sorted) :
                             sorted[i].compatibilityScore > x.compatibilityScore})
    IN  SubSeq(sorted, 1, k) \o <<x>> \o SubSeq(sorted, k + 1, Len(sorted))

\* the comparator (a, b) => b.compatibilityScore - a.compatibilityScore
\* puts a before b; Array.prototype.sort is stable
InsertByScore(sorted, x) ==
    LET k == Cardinality({i \in 1..Len(sorted) :
                             sorted[i].compatibilityScore >= x.compatibilityScore})
    IN  SubSeq(sorted, 1, k) \o <<x>> \o SubSeq(sorted, k + 1, Len(sorted))

RECURSIVE sort(_)
sort(list) ==
    IF list = <<>> THEN <<>>
    ELSE InsertByScore(sort(SubSeq(list, 1, Len(list) - 1)), list[Len(list)])

\* baseQuery of GET /matches applied to one document
MatchesBaseQuery(doc, userId, query) ==
    /\ doc._id # userId
    /\ doc.profileType = "public"
    /\ doc.isActive = TRUE
    /\ doc.isBanned = FALSE
    /\ Truthy(query.location)
         => includes(toLowerCase(doc.location), toLowerCase(query.location.s))
    /\ query.availability # undefined
         => /\ query.availability.s \in DOMAIN doc.availability
            /\ doc.availability[query.availability.s] = TRUE

\* User.find(baseQuery), in the order of insertion
Find(userId, query) == SelectSeq(users, LAMBDA doc : MatchesBaseQuery(doc, userId, query))

\* one object made when the module is loaded and used by every call
NewBreakdown_Shared(heap) == 1

\* const breakdown = { skillMatch: 0, ... }: the object literal makes a new
\* object at each evaluation, at the first address the heap does not hold
NewBreakdown(heap) == Len(heap) + 1

\* the breakdown objects after the calls of the map callback for the first
\* n candidates: call n fills the object it got from NewBreakdown
RECURSIVE BreakdownHeap(_, _, _, _)
BreakdownHeap(currentUser, candidates, n, t) ==
    IF n = 0 THEN <<>>
    ELSE LET heap == BreakdownHeap(currentUser, candidates, n - 1, t)
             breakdown == NewBreakdown(heap)
             filled == calculateCompatibilityScore(currentUser, candidates[n], t).breakdown
         IN  IF breakdown > Len(heap) THEN Append(heap, filled)
             ELSE [heap EXCEPT ![breakdown] = filled]

\* the response of GET /api/users/matches to user userId; a document spread
\* into a result is represented by its _id, and potentialMatches is kept
\* beside the results to tell what the ranking started from.  A result
\* holds a reference to the breakdown object of its call (scoreBreakdownAt);
\* scoreBreakdown is what that object holds when res.json serialises it.
Matches(userId, query) ==
    LET page == IF query.page = undefined THEN Num(1) ELSE query.page
        limit == IF query.limit = undefined THEN Num(10) ELSE query.limit
        potentialMatches == Find(userId, query)
        heap == BreakdownHeap(users[userId], potentialMatches, Len(potentialMatches), now)
        scoredUsers == sort([i \in 1..Len(potentialMatches) |->
            LET score == calculateCompatibilityScore(users[userId], potentialMatches[i], now)
                at == NewBreakdown(BreakdownHeap(users[userId], potentialMatches, i - 1, now))
            IN  [_id |-> potentialMatches[i]._id,
                 compatibilityScore |-> score.totalScore,
                 scoreBreakdownAt |-> at,
                 scoreBreakdown |-> heap[at]]])
        startIndex == Num((ToNumber(page) - 1) * ToNumber(limit))
        endIndex == Plus(startIndex, limit)
    IN  IF userId \notin 1..Len(users)
        THEN [kind |-> "matches", userId |-> userId, query |-> query, status |-> 404]
        ELSE [kind |-> "matches", userId |-> userId, query |-> query, status |-> 200,
              potentialMatches |-> [i \in 1..Len(potentialMatches) |-> potentialMatches[i]._id],
              scoredUsers |-> scoredUsers,
              data |-> slice(scoredUsers, ToNumber(startIndex), ToNumber(endIndex)),
              pagination |-> [totalUsers |-> Len(scoredUsers),
                              hasNext |-> ToNumber(endIndex) < Len(scoredUsers),
                              hasPrev |-> ToNumber(page) > 1]]

\* the query strings sent: none, paging, or one of the filters
Queries ==
    {[page |-> undefined, limit |-> undefined, location |-> undefined,
      availability |-> undefined]}
    \cup {[page |-> Str(p), limit |-> Str(l), location |-> undefined,
           availability |-> undefined] : p \in {<<"1">>, <<"2">>}, l \in {<<"1">>, <<"2">>}}
    \cup {[page |-> undefined, limit |-> undefined, location |-> Str(<<"A">>),
           availability |-> undefined]}
    \cup {[page |-> undefined, limit |-> undefined, location |-> undefined,
           availability |-> Str(a)] : a \in {"weekdays", "weekends"}}

\* GET /api/users/matches by the authenticated user u
GetMatches(u, query) ==
    /\ resp = NoResp
    /\ u \in 1..Len(users)
    /\ resp' = Matches(u, query)
    /\ UNCHANGED <<users, now, swapRequests, ratings, procs>>

\* the profile type compared with a value no profile has
IsPrivateToOthers_NeverPrivate(otherUser, userId) ==
    otherUser.profileType = "Private" /\ otherUser._id # userId

\* the profile is private and the user is not its owner
IsPrivateToOthers(otherUser, userId) ==
    otherUser.profileType = "private" /\ otherUser._id # userId

\* the response of GET /api/users/:id/match-details to user userId; the
\* document data.user is represented by its _id
MatchDetails(userId, id) ==
    IF userId \notin 1..Len(users) \/ id \notin 1..Len(users)
    THEN [kind |-> "details", userId |-> userId, id |-> id, status |-> 404]
    ELSE IF IsPrivateToOthers(users[id], userId)
    THEN [kind |-> "details", userId |-> userId, id |-> id, status |-> 403]
    ELSE LET compatibilityScore == calculateCompatibilityScore(users[userId], users[id], now)
         IN  [kind |-> "details", userId |-> userId, id |-> id, status |-> 200,
              data |-> [user |-> users[id]._id,
                        compatibilityScore |-> compatibilityScore.totalScore,
                        scoreBreakdown |-> compatibilityScore.breakdown,
                        skillMatches |-> findSkillMatches(users[userId], users[id])]]

\* GET /api/users/:id/match-details by the authenticated user u
GetMatchDetails(u, id) ==
    /\ resp = NoResp
    /\ u \in 1..Len(users)
    /\ id \in 1..(Len(users) + 1)
    /\ resp' = MatchDetails(u, id)
    /\ UNCHANGED <<users, now, swapRequests, ratings, procs>>

\* The users whose matching requests are followed.  Every store of n users
\* in every order of registration is reached, so a request by another user
\* is the request of the first one in a store with the users renumbered.
Requesters == {1}

\* res.json: the response leaves and the request is over
Send ==
    /\ resp # NoResp
    /\ resp' = NoResp
    /\ UNCHANGED <<users, now, swapRequests, ratings, procs>>

Next ==
    \/ \E l \in {<<>>, <<"A", ",", " ", "B">>}, t \in {"public", "private"} : Register(l, t)
    \/ \E u \in 1..MaxUsers, l \in {undefined, Str(<<>>), Str(<<"A", ",", " ", "B">>)},
          t \in {undefined, Str("public"), Str("private")} : UpdateProfile(u, l, t)
    \/ \E id \in 1..MaxUsers, ban \in BOOLEAN : Ban(id, ban)
    \/ \E u \in Requesters, q \in Queries : GetMatches(u, q)
    \/ \E u \in Requesters, id \in 1..(MaxUsers + 1) : GetMatchDetails(u, id)
    \/ Send

Spec == Init /\ [][Next]_vars

----------------------------------------------------------------------------
(* The two handlers over a store of three users who have set their skills, *)
(* been rated and logged in at different times                             *)

\* the candidates: a new user; one to learn from, rated 4.8 and last active
\* three days ago; one to teach, rated 5; the same two, private and banned
Candidates(id) ==
    LET learnFrom == Profile(id, <<Offered(pY, "expert")>>, <<Wanted(Go, "medium")>>,
                             <<"a", ",", " ", "b">>, 48, EvalTime - 3 * MsPerDay)
        teach == Profile(id, <<Offered(Go, "advanced")>>, <<Wanted(Py, "high")>>,
                         <<"O", ",", "b">>, 50, EvalTime)
    IN  {Profile(id, <<>>, <<>>, <<>>, 0, EvalTime), learnFrom, teach,
         [learnFrom EXCEPT !.profileType = "private"],
         [teach EXCEPT !.isBanned = TRUE]}

InitRanking ==
    /\ \E o \in SomeOfferedLists, w \in SomeWantedLists,
          c2 \in Candidates(2), c3 \in Candidates(3) :
            users = <<Profile(1, o, w, <<"A", ",", " ", "B">>, 0, EvalTime), c2, c3>>
    /\ now = EvalTime
    /\ resp = NoResp
    /\ swapRequests = <<>>
    /\ ratings = <<>>
    /\ procs = <<>>

NextRanking ==
    \/ \E q \in Queries : GetMatches(1, q)
    \/ \E id \in 1..4 : GetMatchDetails(1, id)
    \/ Send

SpecRanking == InitRanking /\ [][NextRanking]_vars

----------------------------------------------------------------------------
(* The ratings: POST /api/ratings over models/Rating.js, and what it reads *)
(* of the swap requests.  A handler runs from one await to the next in one *)
(* step; several requests are in flight at once, each in a slot of procs.  *)
(* A rating is kept in tenths of a star.                                   *)

\* requests of POST /api/ratings in flight at once
MaxProcs == 2

SwapRequestDoc(id, requester, provider, status) ==
    [_id |-> id, requester |-> requester, provider |-> provider, status |-> status]

\* whether the collection holds a document with that _id; the place of a
\* document that was deleted holds null
Stored(collection, id) ==
    \E i \in 1..Len(collection) : collection[i] # null /\ collection[i]._id = id

\* Model.findById: the document of the collection with that _id, or null
findById(collection, id) ==
    IF Stored(collection, id)
    THEN collection[CHOOSE i \in 1..Len(collection) :
                        collection[i] # null /\ collection[i]._id = id]
    ELSE null

\* f[1] + ... + f[Len(f)]
RECURSIVE reduce(_)
reduce(f) == IF f = <<>> THEN 0 ELSE Head(f) + reduce(Tail(f))

\* max: 5 left out of the schema
validate_NoMax(rating) == rating >= 10

\* the validators of ratingSchema.rating: min 1, max 5
validate(rating) == rating >= 10 /\ rating <= 50

\* the collection without its unique index
DuplicateKey_NoIndex(collection, doc) == FALSE

\* the unique index { swapRequest: 1, rater: 1 } refuses the document
DuplicateKey(collection, doc) ==
    \E i \in 1..Len(collection) :
        collection[i].swapRequest = doc.swapRequest /\ collection[i].rater = doc.rater

\* Math.round(averageRating * 10) / 10 of the ratings found (their values),
\* in tenths: the mean rounded to the nearest tenth, a half towards +Infinity
RoundedAverage(found) == (2 * reduce(found) + Len(found)) \div (2 * Len(found))

Idle == [pc |-> "idle"]

\* a request between two awaits: the user of its token, its body, the _id
\* of the rating it created (0: none), the ratings updateUserRating found
InFlight(pc, userId, body, newRating, found) ==
    [pc |-> pc, userId |-> userId, body |-> body, newRating |-> newRating,
     found |-> found, status |-> 0]

\* a request answered with status
Answered(proc, status) == [proc EXCEPT !.pc = "done", !.status = status]

\* the participant check left out
isParticipant_Anyone(swapRequest, userId) == TRUE

\* [requester.toString(), provider.toString()].includes(req.user._id.toString())
isParticipant(swapRequest, userId) ==
    userId \in {swapRequest.requester, swapRequest.provider}

\* the request arrives with a valid token; SwapRequest.findById and the
\* checks of the swap request; then Rating.findOne is awaited
PostRating(p, userId, body) ==
    /\ procs[p] = Idle
    /\ LET swapRequest == findById(swapRequests, body.swapRequestId)
           proc == InFlight("findOne", userId, body, 0, <<>>)
       IN  procs' = [procs EXCEPT ![p] =
              IF swapRequest = null THEN Answered(proc, 404)
              ELSE IF swapRequest.status # "completed" THEN Answered(proc, 400)
              ELSE IF ~isParticipant(swapRequest, userId) THEN Answered(proc, 403)
              ELSE proc]
    /\ UNCHANGED <<users, now, resp, swapRequests, ratings>>

\* Rating.findOne({ swapRequest, rater }) answers
FindExistingRating(p) ==
    /\ procs[p].pc = "findOne"
    /\ LET existingRating ==
              \E i \in 1..Len(ratings) :
                  /\ ratings[i].swapRequest = procs[p].body.swapRequestId
                  /\ ratings[i].rater = procs[p].userId
       IN  procs' = [procs EXCEPT ![p] =
              IF existingRating THEN Answered(@, 400) ELSE [@ EXCEPT !.pc = "create"]]
    /\ UNCHANGED <<users, now, resp, swapRequests, ratings>>

\* Rating.create: the validators, then the insert under the unique index; an
\* error thrown is answered 400 by the catch block
CreateRating(p) ==
    /\ procs[p].pc = "create"
    /\ LET doc == [_id |-> Len(ratings) + 1,
                   swapRequest |-> procs[p].body.swapRequestId,
                   rater |-> procs[p].userId,
                   rated |-> procs[p].body.ratedUserId,
                   rating |-> procs[p].body.rating]
       IN  IF ~validate(doc.rating) \/ DuplicateKey(ratings, doc)
           THEN /\ procs' = [procs EXCEPT ![p] = Answered(@, 400)]
                /\ UNCHANGED ratings
           ELSE /\ ratings' = Append(ratings, doc)
                /\ procs' = [procs EXCEPT ![p] = [@ EXCEPT !.pc = "find",
                                                            !.newRating = doc._id]]
    /\ UNCHANGED <<users, now, resp, swapRequests>>

\* updateUserRating: Rating.find({ rated: userId }) answers
UpdateUserRatingFind(p) ==
    /\ procs[p].pc = "find"
    /\ LET docs == SelectSeq(ratings, LAMBDA r : r.rated = procs[p].body.ratedUserId)
           found == [i \in 1..Len(docs) |-> docs[i].rating]
       IN  procs' = [procs EXCEPT ![p] =
              IF Len(found) > 0 THEN [@ EXCEPT !.pc = "update", !.found = found]
              ELSE Answered(@, 201)]
    /\ UNCHANGED <<users, now, resp, swapRequests, ratings>>

\* updateUserRating: User.findByIdAndUpdate writes the mean and the count;
\* newRating.populate only reads, and the request is answered 201
UpdateUserRatingWrite(p) ==
    /\ procs[p].pc = "update"
    /\ LET userId == procs[p].body.ratedUserId
       IN  users' = IF userId \in 1..Len(users)
                    THEN [users EXCEPT
                            ![userId].averageRating = RoundedAverage(procs[p].found),
                            ![userId].totalRatings = Len(procs[p].found)]
                    ELSE users
    /\ procs' = [procs EXCEPT ![p] = Answered(@, 201)]
    /\ UNCHANGED <<now, resp, swapRequests, ratings>>

\* the response leaves and the slot is free again
SendRating(p) ==
    /\ procs[p].pc = "done"
    /\ procs' = [procs EXCEPT ![p] = Idle]
    /\ UNCHANGED <<users, now, resp, swapRequests, ratings>>

RatingBody(swapRequestId, ratedUserId, rating) ==
    [swapRequestId |-> swapRequestId, ratedUserId |-> ratedUserId, rating |-> rating]

\* The requests sent, as (user, body).  Swap 1 (user 1 with provider 2) and
\* swap 2 (user 3 with provider 2) are completed, swap 3 is pending and
\* there is no swap 4.  For swap 1, user 1 rates user 2 with 1 star or, out
\* of range, 6, and user 2 rates themself with 4.5; user 3 rates user 2 for
\* swap 2, and for swap 1 of which they are no part; user 1 rates for the
\* pending and for the missing swap.
RatingRequests ==
    {<<1, RatingBody(1, 2, 10)>>, <<1, RatingBody(1, 2, 60)>>,
     <<2, RatingBody(1, 2, 45)>>,
     <<3, RatingBody(2, 2, 50)>>, <<3, RatingBody(1, 2, 50)>>,
     <<1, RatingBody(3, 3, 50)>>, <<1, RatingBody(4, 2, 50)>>}

\* three users who offered a skill, asked each other for swaps and carried
\* two of them out; no rating yet
InitRatings ==
    /\ users = [id \in 1..3 |->
                   Profile(id, <<Offered(Go, "advanced")>>, <<>>, <<>>, 0, StartTime)]
    /\ now = StartTime
    /\ resp = NoResp
    /\ swapRequests = <<SwapRequestDoc(1, 1, 2, "completed"),
                        SwapRequestDoc(2, 3, 2, "completed"),
                        SwapRequestDoc(3, 1, 3, "pending")>>
    /\ ratings = <<>>
    /\ procs = [p \in 1..MaxProcs |-> Idle]

NextRatings ==
    \E p \in 1..MaxProcs :
        \/ \E r \in RatingRequests : PostRating(p, r[1], r[2])
        \/ FindExistingRating(p)
        \/ CreateRating(p)
        \/ UpdateUserRatingFind(p)
        \/ UpdateUserRatingWrite(p)
        \/ SendRating(p)

SpecRatings == InitRatings /\ [][NextRatings]_vars

----------------------------------------------------------------------------
(* The swap requests: routes/swaps.js and PUT /api/admin/swaps/:id/moderate *)
(* over the SwapRequest collection.  A handler runs from one await to the   *)
(* next in one step: the step of findById reads the store and makes the     *)
(* checks on what it read, and the step of save, create or findByIdAndDelete *)
(* writes.  The _id of a swap request is its place in swapRequests, and a   *)
(* deleted document leaves null at its place, so that no _id is used twice. *)
(* The 24 hexadecimal digits of an ObjectId are modelled by one digit.      *)

\* swap requests created in a behaviour
MaxSwaps == 1

\* the digit of the ObjectId of user 1, 2, 3 and of no user
HexDigits == <<"a", "b", "c", "d">>

\* ObjectId.prototype.toString: the digits in lower case
ObjectIdToString(id) == <<HexDigits[id]>>

\* the string is the hexadecimal form of an ObjectId, in either case
isValidObjectId(s) ==
    \E id \in 1..Len(HexDigits) : toLowerCase(s) = ObjectIdToString(id)

\* the cast of a string to ObjectId by a query or by a schema path
castObjectId(s) ==
    CHOOSE id \in 1..Len(HexDigits) : toLowerCase(s) = ObjectIdToString(id)

\* list.some(skill => skill.name.toLowerCase() === name.toLowerCase())
some(list, name) == find(list, name) # 0

\* the validators of swapRequestSchema on skillOffered and skillWanted
validateSwapRequest(doc) ==
    doc.skillOffered.level \in Levels /\ doc.skillWanted.level \in Levels

\* a request of routes/swaps.js or of the admin route between two awaits:
\* its handler, the user of its token, the swap request of its path and its
\* body
SwapCall(op, pc, userId, id, body) ==
    [op |-> op, pc |-> pc, userId |-> userId, id |-> id, body |-> body, status |-> 0]

NoBody == [type |-> "none"]

\* the requests between User.findById and SwapRequest.create
Creating == {p \in 1..MaxProcs : procs[p] # Idle /\ procs[p].pc = "create"}

\* POST /api/swaps/request arrives with a valid token (req.user is the
\* stored user); User.findById and the four checks; a thrown CastError is
\* answered 400 by the catch block
PostRequest(p, userId, body) ==
    /\ procs[p] = Idle
    /\ Len(swapRequests) + Cardinality(Creating) < MaxSwaps
    /\ LET proc == SwapCall("request", "create", userId, 0, body)
           provider == IF castObjectId(body.providerId) \in 1..Len(users)
                       THEN users[castObjectId(body.providerId)] ELSE null
       IN  procs' = [procs EXCEPT ![p] =
              IF ~isValidObjectId(body.providerId) THEN Answered(proc, 400)
              ELSE IF provider = null THEN Answered(proc, 404)
              ELSE IF body.providerId = ObjectIdToString(users[userId]._id)
                   THEN Answered(proc, 400)
              ELSE IF ~some(provider.skillsOffered, body.skillWanted.name)
                   THEN Answered(proc, 400)
              ELSE IF ~some(users[userId].skillsOffered, body.skillOffered.name)
                   THEN Answered(proc, 400)
              ELSE proc]
    /\ UNCHANGED <<users, now, resp, swapRequests, ratings>>

\* SwapRequest.create: the validators, the defaults and the insert; populate
\* only reads, and the request is answered 201
CreateSwapRequest(p) ==
    /\ procs[p] # Idle /\ procs[p].op = "request" /\ procs[p].pc = "create"
    /\ LET doc == [_id |-> Len(swapRequests) + 1,
                   requester |-> procs[p].userId,
                   provider |-> castObjectId(procs[p].body.providerId),
                   skillOffered |-> procs[p].body.skillOffered,
                   skillWanted |-> procs[p].body.skillWanted,
                   status |-> "pending",
                   responseDate |-> null]
       IN  IF ~validateSwapRequest(doc)
           THEN /\ procs' = [procs EXCEPT ![p] = Answered(@, 400)]
                /\ UNCHANGED swapRequests
           ELSE /\ swapRequests' = Append(swapRequests, doc)
                /\ procs' = [procs EXCEPT ![p] = Answered([@ EXCEPT !.id = doc._id], 201)]
    /\ UNCHANGED <<users, now, resp, ratings>>

\* PUT /api/swaps/:id/accept: SwapRequest.findById and the checks
Accept(p, userId, id) ==
    /\ procs[p] = Idle
    /\ LET swapRequest == findById(swapRequests, id)
           proc == SwapCall("accept", "save", userId, id, NoBody)
       IN  procs' = [procs EXCEPT ![p] =
              IF swapRequest = null THEN Answered(proc, 404)
              ELSE IF swapRequest.provider # userId THEN Answered(proc, 403)
              ELSE IF swapRequest.status # "pending" THEN Answered(proc, 400)
              ELSE proc]
    /\ UNCHANGED <<users, now, resp, swapRequests, ratings>>

\* PUT /api/swaps/:id/reject: SwapRequest.findById and the checks
Reject(p, userId, id) ==
    /\ procs[p] = Idle
    /\ LET swapRequest == findById(swapRequests, id)
           proc == SwapCall("reject", "save", userId, id, NoBody)
       IN  procs' = [procs EXCEPT ![p] =
              IF swapRequest = null THEN Answered(proc, 404)
              ELSE IF swapRequest.provider # userId THEN Answered(proc, 403)
              ELSE IF swapRequest.status # "pending" THEN Answered(proc, 400)
              ELSE proc]
    /\ UNCHANGED <<users, now, resp, swapRequests, ratings>>

\* PUT /api/swaps/:id/complete: SwapRequest.findById and the checks
Complete(p, userId, id) ==
    /\ procs[p] = Idle
    /\ LET swapRequest == findById(swapRequests, id)
           proc == SwapCall("complete", "save", userId, id, NoBody)
       IN  procs' = [procs EXCEPT ![p] =
              IF swapRequest = null THEN Answered(proc, 404)
              ELSE IF ~isParticipant(swapRequest, userId) THEN Answered(proc, 403)
              ELSE IF swapRequest.status # "accepted" THEN Answered(proc, 400)
              ELSE proc]
    /\ UNCHANGED <<users, now, resp, swapRequests, ratings>>

\* DELETE /api/swaps/:id: SwapRequest.findById and the checks
Delete(p, userId, id) ==
    /\ procs[p] = Idle
    /\ LET swapRequest == findById(swapRequests, id)
           proc == SwapCall("delete", "delete", userId, id, NoBody)
       IN  procs' = [procs EXCEPT ![p] =
              IF swapRequest = null THEN Answered(proc, 404)
              ELSE IF swapRequest.requester # userId THEN Answered(proc, 403)
              ELSE IF swapRequest.status # "pending" THEN Answered(proc, 400)
              ELSE proc]
    /\ UNCHANGED <<users, now, resp, swapRequests, ratings>>

\* PUT /api/admin/swaps/:id/moderate by an admin: SwapRequest.findById
Moderate(p, userId, id, action) ==
    /\ procs[p] = Idle
    /\ LET swapRequest == findById(swapRequests, id)
           proc == SwapCall("moderate", "save", userId, id, [action |-> action])
       IN  procs' = [procs EXCEPT ![p] =
              IF swapRequest = null THEN Answered(proc, 404) ELSE proc]
    /\ UNCHANGED <<users, now, resp, swapRequests, ratings>>

\* the paths a handler modified on the document it found
Modified(proc) ==
    CASE proc.op = "accept" -> [status |-> "accepted", responseDate |-> now]
      [] proc.op = "reject" -> [status |-> "rejected", responseDate |-> now]
      [] proc.op = "complete" -> [status |-> "completed"]
      [] proc.op = "moderate" ->
            IF proc.body.action = "cancel" THEN [status |-> "cancelled"] ELSE <<>>

\* the update of save() applied to the stored document: the modified paths
\* are set and every other path keeps its stored value
Set(doc, modified) ==
    [path \in DOMAIN doc |-> IF path \in DOMAIN modified THEN modified[path] ELSE doc[path]]

\* swapRequest.save(): the update is sent for the document's _id without a
\* look at its stored status; a document that is no longer stored makes save
\* throw, which the catch block answers 500
Save(p) ==
    /\ procs[p] # Idle /\ procs[p].pc = "save"
    /\ IF Stored(swapRequests, procs[p].id)
       THEN /\ swapRequests' = [swapRequests EXCEPT
                                  ![procs[p].id] = Set(@, Modified(procs[p]))]
            /\ procs' = [procs EXCEPT ![p] = Answered(@, 200)]
       ELSE /\ procs' = [procs EXCEPT ![p] = Answered(@, 500)]
            /\ UNCHANGED swapRequests
    /\ UNCHANGED <<users, now, resp, ratings>>

\* SwapRequest.findByIdAndDelete: removes the document, whatever its status
\* is by now, and answers 200 also when it finds none
FindByIdAndDelete(p) ==
    /\ procs[p] # Idle /\ procs[p].pc = "delete"
    /\ swapRequests' = IF Stored(swapRequests, procs[p].id)
                       THEN [swapRequests EXCEPT ![procs[p].id] = null]
                       ELSE swapRequests
    /\ procs' = [procs EXCEPT ![p] = Answered(@, 200)]
    /\ UNCHANGED <<users, now, resp, ratings>>

\* the response leaves and the slot is free again
SendSwap(p) ==
    /\ procs[p] # Idle /\ procs[p].pc = "done"
    /\ procs' = [procs EXCEPT ![p] = Idle]
    /\ UNCHANGED <<users, now, resp, swapRequests, ratings>>

SwapBody(providerId, offeredName, offeredLevel, wantedName, wantedLevel) ==
    [providerId |-> providerId,
     skillOffered |-> [name |-> offeredName, level |-> offeredLevel],
     skillWanted |-> [name |-> wantedName, level |-> wantedLevel]]

\* The bodies of POST /api/swaps/request, as (user, body).  User 1 (id "a")
\* offers Go, user 2 (id "b") offers pY and user 3 offers nothing.  User 1
\* asks user 2 for Py against Go; the same without a level of the wanted
\* skill; user 1 asks a user that does not exist, asks for something that is
\* no ObjectId, asks themself (as "a", and as "A"), asks user 2 for Go, which
\* user 2 does not offer; user 3 offers user 2 Go, which user 3 does not have.
SwapBodies ==
    {<<1, SwapBody(<<"b">>, Go, "advanced", Py, "expert")>>,
     <<1, SwapBody(<<"b">>, Go, "advanced", Py, "undefined")>>,
     <<1, SwapBody(<<"d">>, Go, "advanced", Py, "expert")>>,
     <<1, SwapBody(<<"y">>, Go, "advanced", Py, "expert")>>,
     <<1, SwapBody(<<"a">>, Go, "advanced", Go, "advanced")>>,
     <<1, SwapBody(<<"A">>, Go, "advanced", Go, "advanced")>>,
     <<1, SwapBody(<<"b">>, Go, "advanced", Go, "advanced")>>,
     <<3, SwapBody(<<"b">>, Go, "advanced", Py, "expert")>>}

\* three users, two of them with a skill to offer and the third an admin; no
\* swap request yet
InitSwaps ==
    /\ users = <<Profile(1, <<Offered(Go, "advanced")>>, <<Wanted(Py, "high")>>,
                         <<>>, 0, StartTime),
                 Profile(2, <<Offered(pY, "expert")>>, <<>>, <<>>, 0, StartTime),
                 Profile(3, <<>>, <<>>, <<>>, 0, StartTime)>>
    /\ now = StartTime
    /\ resp = NoResp
    /\ swapRequests = <<>>
    /\ ratings = <<>>
    /\ procs = [p \in 1..MaxProcs |-> Idle]

NextSwaps ==
    \E p \in 1..MaxProcs :
        \/ \E r \in SwapBodies : PostRequest(p, r[1], r[2])
        \/ CreateSwapRequest(p)
        \/ \E userId \in 1..3, id \in 1..(MaxSwaps + 1) :
              \/ Accept(p, userId, id)
              \/ Reject(p, userId, id)
              \/ Complete(p, userId, id)
              \/ Delete(p, userId, id)
        \/ \E id \in 1..(MaxSwaps + 1), action \in {"cancel", "approve"} :
              Moderate(p, 3, id, action)
        \/ Save(p)
        \/ FindByIdAndDelete(p)
        \/ SendSwap(p)

SpecSwaps == InitSwaps /\ [][NextSwaps]_vars

----------------------------------------------------------------------------
(* Properties of the scorer, checked under SpecScore *)

scored == resp.kind = "score"

currentUser == users[1]

otherUser == users[2]

\* C1: every totalScore returned by calculateCompatibilityScore lies in
\* [0, 18.5], whatever the profiles and the candidate's lastActive are.
C1_TotalScoreInRange ==
    scored => resp.score.totalScore >= 0 /\ resp.score.totalScore <= 1850

\* C2: every breakdown field stays within its cap before weighting:
\* skillMatch <= 20, mutualBenefit <= 25, ratingBonus <= 10,
\* activityBonus <= 10, locationBonus <= 10.
C2_BreakdownWithinCaps ==
    scored => /\ resp.score.breakdown.skillMatch <= 200
              /\ resp.score.breakdown.mutualBenefit <= 250
              /\ resp.score.breakdown.ratingBonus <= 100
              /\ resp.score.breakdown.activityBonus <= 100
              /\ resp.score.breakdown.locationBonus <= 100

\* the tables of the documentation, in tenths
DocLevelScore == [l \in Levels |->
    CASE l = "beginner" -> 1 [] l = "intermediate" -> 2 [] l = "advanced" -> 3
      [] l = "expert" -> 4]

DocPriorityMultiplier == [p \in Priorities |->
    CASE p = "low" -> 5 [] p = "medium" -> 10 [] p = "high" -> 15]

DocSkillPriorityBonus == [p \in Priorities |->
    CASE p = "high" -> 30 [] p = "medium" -> 20 [] p = "low" -> 10]

DocMutualPriorityBonus == [p \in Priorities |->
    CASE p = "high" -> 40 [] p = "medium" -> 20 [] p = "low" -> 10]

\* two characters that are the same letter
SameLetter(a, b) ==
    \/ a = b
    \/ <<a, b>> \in {<<"P", "p">>, <<"Y", "y">>, <<"G", "g">>, <<"O", "o">>,
                     <<"A", "a">>, <<"B", "b">>}
    \/ <<b, a>> \in {<<"P", "p">>, <<"Y", "y">>, <<"G", "g">>, <<"O", "o">>,
                     <<"A", "a">>, <<"B", "b">>}

EqualIgnoringCase(s, t) ==
    Len(s) = Len(t) /\ \A i \in 1..Len(s) : SameLetter(s[i], t[i])

\* the entries of list named like name, and the earliest of them
NamedLike(list, name) == {j \in 1..Len(list) : EqualIgnoringCase(list[j].name, name)}

Earliest(S) == CHOOSE j \in S : \A k \in S : j <= k

\* f[1] + ... + f[n]
RECURSIVE SumTo(_, _)
SumTo(f, n) == IF n = 0 THEN 0 ELSE f[n] + SumTo(f, n - 1)

C3_S ==
    LET w == currentUser.skillsWanted
        o == otherUser.skillsOffered
        term == [i \in 1..Len(w) |->
                    IF NamedLike(o, w[i].name) = {} THEN 0
                    ELSE 50 + DocSkillPriorityBonus[w[i].priority]
                         + DocLevelScore[o[Earliest(NamedLike(o, w[i].name))].level]
                           * DocPriorityMultiplier[w[i].priority]]
    IN  SumTo(term, Len(w))

\* C3: skillMatch = min(20, S), S the sum over the wanted skills of the
\* current user that the candidate offers (names compared ignoring case) of
\* 5 + priority bonus + levelScore(level of the first such offered entry) *
\* priorityMultiplier; 0 without a match; Python/high against Python/expert
\* gives 14.
C3_SkillMatch ==
    scored =>
        /\ resp.score.breakdown.skillMatch = Min(200, C3_S)
        /\ (\A i \in 1..Len(currentUser.skillsWanted) :
               NamedLike(otherUser.skillsOffered, currentUser.skillsWanted[i].name) = {})
           => resp.score.breakdown.skillMatch = 0
        /\ (/\ currentUser.skillsWanted = <<Wanted(Py, "high")>>
            /\ otherUser.skillsOffered = <<Offered(pY, "expert")>>)
           => resp.score.breakdown.skillMatch = 140

\* two wanted skills, one matched ignoring case and one unmatched; the offered
\* name is duplicated and the level of its first entry (expert) is the one used
C3_Witness ==
    /\ scored
    /\ currentUser.skillsWanted = <<Wanted(Py, "high"), Wanted(Go, "high")>>
    /\ otherUser.skillsOffered = <<Offered(pY, "expert"), Offered(pY, "beginner")>>
    /\ resp.score.breakdown.skillMatch = 140

C3_CapWitness ==
    /\ scored
    /\ C3_S > 200
    /\ resp.score.breakdown.skillMatch = 200

C4_Matched ==
    {i \in 1..Len(currentUser.skillsOffered) :
        NamedLike(otherUser.skillsWanted, currentUser.skillsOffered[i].name) # {}}

C4_S ==
    LET o == currentUser.skillsOffered
        w == otherUser.skillsWanted
        term == [i \in 1..Len(o) |->
                    IF i \notin C4_Matched THEN 0
                    ELSE LET m == w[Earliest(NamedLike(w, o[i].name))]
                         IN  80 + DocMutualPriorityBonus[m.priority]
                             + DocLevelScore[o[i].level] * DocPriorityMultiplier[m.priority]]
    IN  SumTo(term, Len(o))

\* C4: mutualBenefit = min(25, S + 5 * (n - 1 if n > 1 else 0)), n the
\* number of offered skills of the current user that the candidate wants and
\* S the sum over them of 8 + priority bonus + levelScore * multiplier;
\* JavaScript/advanced against JavaScript/medium alone gives 13.
C4_MutualBenefit ==
    scored =>
        LET n == Cardinality(C4_Matched)
        IN  /\ resp.score.breakdown.mutualBenefit
                 = Min(250, C4_S + 50 * (IF n > 1 THEN n - 1 ELSE 0))
            /\ (/\ currentUser.skillsOffered = <<Offered(Go, "advanced")>>
                /\ otherUser.skillsWanted = <<Wanted(Go, "medium")>>)
               => resp.score.breakdown.mutualBenefit = 130

\* two matches whose sum with the multi-match bonus stays under the cap
C4_Witness ==
    /\ scored
    /\ currentUser.skillsOffered = <<Offered(Go, "beginner"), Offered(pY, "beginner")>>
    /\ otherUser.skillsWanted = <<Wanted(Py, "low"), Wanted(Go, "low")>>
    /\ Cardinality(C4_Matched) = 2
    /\ resp.score.breakdown.mutualBenefit = 240

\* x / 10 rounded to the nearest integer, a half rounded up
RoundHalfUp10(x) == CHOOSE h \in (x \div 10)..(x \div 10 + 1) :
                        10 * h - 5 <= x /\ x < 10 * h + 5

\* C5: totalScore = skillMatch*0.40 + mutualBenefit*0.30 + ratingBonus*0.15
\* + activityBonus*0.10 + locationBonus*0.05 over the returned breakdown,
\* rounded half-up to 2 decimals; breakdown (14, 13, 10, 0, 10) gives 11.5.
C5_WeightedTotal ==
    scored =>
        LET b == resp.score.breakdown
        IN  /\ resp.score.totalScore
                 = RoundHalfUp10(b.skillMatch * 40 + b.mutualBenefit * 30
                                 + b.ratingBonus * 15 + b.activityBonus * 10
                                 + b.locationBonus * 5)
            /\ b = [skillMatch |-> 140, mutualBenefit |-> 130, ratingBonus |-> 100,
                    activityBonus |-> 0, locationBonus |-> 100]
               => resp.score.totalScore = 1150

C5_Witness ==
    /\ scored
    /\ resp.score.breakdown = [skillMatch |-> 140, mutualBenefit |-> 130,
                               ratingBonus |-> 100, activityBonus |-> 0,
                               locationBonus |-> 100]
    /\ resp.score.totalScore = 1150

\* the whole days in an interval of ms milliseconds: the integer d with
\* d days <= ms < d + 1 days
WholeDays(ms) == CHOOSE d \in (0 - 3)..21 :
                    d * MsPerDay <= ms /\ ms < (d + 1) * MsPerDay

C11_RatingBonus ==
    scored =>
        /\ resp.score.breakdown.ratingBonus
             = (IF 2 * otherUser.averageRating < 100 THEN 2 * otherUser.averageRating
                ELSE 100)
        /\ otherUser.totalRatings = 0 => resp.score.breakdown.ratingBonus = 0
        /\ otherUser.averageRating = 50 => resp.score.breakdown.ratingBonus = 100

\* a candidate rated 4.8 contributes 9.6
C11_Witness ==
    /\ scored
    /\ otherUser.averageRating = 48
    /\ otherUser.totalRatings > 0
    /\ resp.score.breakdown.ratingBonus = 96

\* the first comma-delimited segment of a location, lower-cased
City(location) == split(toLowerCase(location), ",")[1]

\* the region rule: 5 when both locations have a second segment and the two
\* are equal once trimmed, else 0
RegionRule(l1, l2) ==
    LET p1 == split(toLowerCase(l1), ",")
        p2 == split(toLowerCase(l2), ",")
    IN  IF Len(p1) > 1 /\ Len(p2) > 1 /\ trim(p1[2]) = trim(p2[2]) THEN 50 ELSE 0

\* C12: for two present locations that differ even ignoring case, the
\* location score is 8 exactly when the city of one is a substring of the
\* city of the other (case-insensitively), and otherwise 5 or 0 as the
\* region rule decides.
C12_LocationCity ==
    (/\ scored
     /\ currentUser.location # <<>>
     /\ otherUser.location # <<>>
     /\ ~EqualIgnoringCase(currentUser.location, otherUser.location)) =>
        LET sameCity == \/ includes(City(currentUser.location), City(otherUser.location))
                        \/ includes(City(otherUser.location), City(currentUser.location))
        IN  /\ resp.score.breakdown.locationBonus = 80 <=> sameCity
            /\ ~sameCity => resp.score.breakdown.locationBonus
                               = RegionRule(currentUser.location, otherUser.location)

explained == resp.kind = "skillMatches"

\* the skill names of a list of the trace, lower-cased
SkillNames(list) == {toLowerCase(list[i].skill) : i \in 1..Len(list)}

\* C13: youCanTeach, theyCanTeach and mutualMatches are pairwise disjoint:
\* no skill name, compared ignoring case, is in two of them.
C13_ListsDisjoint ==
    explained =>
        LET m == resp.skillMatches
        IN  /\ SkillNames(m.youCanTeach) \cap SkillNames(m.theyCanTeach) = {}
            /\ SkillNames(m.youCanTeach) \cap SkillNames(m.mutualMatches) = {}
            /\ SkillNames(m.theyCanTeach) \cap SkillNames(m.mutualMatches) = {}

\* a call of calculateCompatibilityScore has ended, by a return or a throw
scoreCalled ==
    \/ resp.kind = "score"
    \/ resp.kind = "error" /\ resp.call = "calculateCompatibilityScore"

\* C14: with a candidate never rated, or a skill list of either user empty,
\* the call returns, the sub-score concerned is 0 and every field of the
\* result is a number; a user without any skill gives skillMatch = 0 and
\* mutualBenefit = 0.
C14_EmptyGivesZero ==
    scoreCalled =>
        LET noSkillMatch == currentUser.skillsWanted = <<>> \/ otherUser.skillsOffered = <<>>
            noMutual == currentUser.skillsOffered = <<>> \/ otherUser.skillsWanted = <<>>
            noRatings == otherUser.totalRatings = 0
        IN  (noSkillMatch \/ noMutual \/ noRatings) =>
                /\ resp.kind = "score"
                /\ noSkillMatch => resp.score.breakdown.skillMatch = 0
                /\ noMutual => resp.score.breakdown.mutualBenefit = 0
                /\ noRatings => resp.score.breakdown.ratingBonus = 0
                /\ (\/ currentUser.skillsWanted = <<>> /\ currentUser.skillsOffered = <<>>
                    \/ otherUser.skillsWanted = <<>> /\ otherUser.skillsOffered = <<>>)
                   => /\ resp.score.breakdown.skillMatch = 0
                      /\ resp.score.breakdown.mutualBenefit = 0
                /\ \A f \in DOMAIN resp.score.breakdown : resp.score.breakdown[f] \in Int
                /\ resp.score.totalScore \in Int

\* a candidate without skills and never rated, scored for a user who has
\* skills: only the activity and location factors are left
C14_Witness ==
    /\ scored
    /\ currentUser.skillsWanted # <<>>
    /\ currentUser.skillsOffered # <<>>
    /\ otherUser.skillsOffered = <<>>
    /\ otherUser.skillsWanted = <<>>
    /\ otherUser.totalRatings = 0
    /\ resp.score.breakdown.skillMatch = 0
    /\ resp.score.breakdown.mutualBenefit = 0
    /\ resp.score.breakdown.ratingBonus = 0
    /\ resp.score.totalScore > 0

\* C30: the explainer agrees with the scorers for every pair of profiles,
\* profiles that list a skill name more than once included: youCanTeach has
\* as many entries as calculateMutualBenefitScore scored matches, and
\* theyCanTeach as many as calculateSkillMatchScore scored matches.
C30_ExplainerAgrees ==
    explained =>
        /\ Len(resp.skillMatches.youCanTeach)
             = MutualMatchCount(currentUser.skillsOffered, otherUser.skillsWanted)
        /\ Len(resp.skillMatches.theyCanTeach)
             = SkillMatchCount(currentUser.skillsWanted, otherUser.skillsOffered)

----------------------------------------------------------------------------
(* Properties of the scorers on invalid inputs, checked under SpecInvalid *)

\* the tables with their documented defaults, in tenths
LevelScoreOr1(level) == IF level \in Levels THEN DocLevelScore[level] ELSE 1

PriorityMultiplierOr1(priority) ==
    IF priority \in Priorities THEN DocPriorityMultiplier[priority] ELSE 10

\* C15: scoring two profiles with malformed skill records (an empty or
\* missing name, a level or priority outside the enumerations) never raises:
\* the call returns, an unrecognized level counting as levelScore 1 and an
\* unrecognized priority as priorityMultiplier 1.
C15_MalformedNeverRaises ==
    (scoreCalled /\ currentUser # null /\ otherUser # null) =>
        /\ resp.kind = "score"
        /\ (Len(currentUser.skillsWanted) = 1 /\ Len(otherUser.skillsOffered) = 1
            /\ EqualIgnoringCase(currentUser.skillsWanted[1].name,
                                 otherUser.skillsOffered[1].name))
           => \E bonus \in {10, 20, 30} :
                 resp.score.breakdown.skillMatch
                    = 50 + bonus
                      + LevelScoreOr1(otherUser.skillsOffered[1].level)
                        * PriorityMultiplierOr1(currentUser.skillsWanted[1].priority)

\* C16: a call of calculateCompatibilityScore or findSkillMatches with a
\* null current profile or candidate returns no score and signals the
\* condition InvalidInput.
C16_NullIsInvalidInput ==
    (resp # NoResp /\ (currentUser = null \/ otherUser = null)) =>
        resp.kind = "error" /\ resp.error = "InvalidInput"

----------------------------------------------------------------------------
(* Properties of the handlers, checked under Spec *)

ranked == resp.kind = "matches" /\ resp.status = 200

detailed == resp.kind = "details"

\* the place of an _id in a list of them
PlaceOf(id, ids) == CHOOSE i \in 1..Len(ids) : ids[i] = id

\* C6: the ranked list of GET /matches holds each candidate once, in
\* non-increasing order of compatibilityScore, candidates of equal score in
\* the order of the candidate list.
C6_RankedPermutation ==
    ranked =>
        LET found == resp.potentialMatches
            su == resp.scoredUsers
        IN  /\ Len(su) = Len(found)
            /\ \A i \in 1..Len(found) :
                  Cardinality({j \in 1..Len(su) : su[j]._id = found[i]}) = 1
            /\ \A j \in 1..Len(su) :
                  su[j].compatibilityScore
                     = calculateCompatibilityScore(users[resp.userId], users[su[j]._id],
                                                   now).totalScore
            /\ \A i, j \in 1..Len(su) :
                  i < j => /\ su[i].compatibilityScore >= su[j].compatibilityScore
                           /\ su[i].compatibilityScore = su[j].compatibilityScore
                              => PlaceOf(su[i]._id, found) < PlaceOf(su[j]._id, found)

\* three candidates, the second of which outranks the other two, which tie
C6_Witness ==
    /\ ranked
    /\ Len(resp.scoredUsers) = 3
    /\ resp.scoredUsers[1]._id = resp.potentialMatches[2]
    /\ resp.scoredUsers[2]._id = resp.potentialMatches[1]
    /\ resp.scoredUsers[3]._id = resp.potentialMatches[3]
    /\ resp.scoredUsers[1].compatibilityScore > resp.scoredUsers[2].compatibilityScore
    /\ resp.scoredUsers[2].compatibilityScore = resp.scoredUsers[3].compatibilityScore

\* C7: with page = p >= 1 and limit = L >= 1 in the query, data is the
\* elements at 0-based positions (p-1)*L .. p*L-1 of the sorted list, never
\* more than L of them.
C7_PageIsSlice ==
    (ranked /\ resp.query.page # undefined /\ resp.query.limit # undefined) =>
        LET p == StringToNumber(resp.query.page.s)
            L == StringToNumber(resp.query.limit.s)
        IN  /\ resp.data = SubSeq(resp.scoredUsers, (p - 1) * L + 1,
                                  Min(p * L, Len(resp.scoredUsers)))
            /\ Len(resp.data) <= L

Eligible(doc, userId) ==
    /\ doc._id # userId
    /\ doc.profileType = "public"
    /\ doc.isActive
    /\ ~doc.isBanned

\* C8: in ranking mode and in detail mode, every profile scored against the
\* requesting user is another user's, public, active and not banned.
C8_ScoredAreEligible ==
    /\ ranked => \A i \in 1..Len(resp.scoredUsers) :
                    Eligible(users[resp.scoredUsers[i]._id], resp.userId)
    /\ (detailed /\ resp.status = 200) => Eligible(users[resp.data.user], resp.userId)

\* C9: match-details returns no score for a private profile to anyone but
\* its owner (it answers 403), and answers 404 without a score when the
\* current user or the target user does not exist.
C9_DetailsGuarded ==
    detailed =>
        /\ "data" \in DOMAIN resp
             => /\ resp.status = 200
                /\ resp.data.user = resp.id
                /\ users[resp.id].profileType = "private" => resp.id = resp.userId
        /\ (/\ resp.id \in 1..Len(users)
            /\ resp.userId \in 1..Len(users)
            /\ users[resp.id].profileType = "private"
            /\ resp.id # resp.userId)
             => resp.status = 403 /\ "data" \notin DOMAIN resp
        /\ (resp.id \notin 1..Len(users) \/ resp.userId \notin 1..Len(users))
             => resp.status = 404 /\ "data" \notin DOMAIN resp

\* a private profile asked for by another user
C9_Witness ==
    /\ detailed
    /\ resp.id \in 1..Len(users)
    /\ users[resp.id].profileType = "private"
    /\ resp.id # resp.userId
    /\ resp.status = 403

C9_OwnerWitness ==
    /\ detailed
    /\ resp.id = resp.userId
    /\ users[resp.id].profileType = "private"
    /\ resp.status = 200

C9_MissingWitness ==
    /\ detailed
    /\ resp.id \notin 1..Len(users)
    /\ resp.status = 404

----------------------------------------------------------------------------
(* Properties of the handlers over a store with skills, under SpecRanking *)

\* every result of the ranking holds a breakdown object of its own, filled
\* with the breakdown of its own candidate
FreshBreakdowns ==
    ranked =>
        LET su == resp.scoredUsers
        IN  /\ \A i, j \in 1..Len(su) :
                  i # j => su[i].scoreBreakdownAt # su[j].scoreBreakdownAt
            /\ \A j \in 1..Len(su) :
                  su[j].scoreBreakdown
                     = calculateCompatibilityScore(users[resp.userId], users[su[j]._id],
                                                   now).breakdown

\* C18: a request that calls calculateCompatibilityScore and findSkillMatches
\* leaves the profiles it passes (skill lists, rating, lastActive, location)
\* as they were, and each call of a ranking produces a breakdown object of
\* its own, shared with the result of no other candidate.
C18_FrameAndFresh ==
    [][(resp = NoResp /\ resp' # NoResp) => (users' = users /\ FreshBreakdowns')]_vars

\* a ranking of two candidates with skills whose breakdowns differ
C18_Witness ==
    /\ ranked
    /\ Len(resp.scoredUsers) = 2
    /\ resp.scoredUsers[1].scoreBreakdownAt # resp.scoredUsers[2].scoreBreakdownAt
    /\ resp.scoredUsers[1].scoreBreakdown # resp.scoredUsers[2].scoreBreakdown
    /\ resp.scoredUsers[1].scoreBreakdown.skillMatch > 0
    /\ users[resp.userId].skillsWanted # <<>>

----------------------------------------------------------------------------
(* Properties of the ratings, checked under SpecRatings *)

\* C19: in every reachable state, after any rating creations, the stored
\* averageRating of every user lies in [0, 5].
C19_AverageRatingInRange ==
    \A id \in 1..Len(users) :
        users[id].averageRating >= 0 /\ users[id].averageRating <= 50

\* user 2 rated 1 and 4.5 stars: the mean 2.75 is stored as 2.8
C19_Witness ==
    /\ Len(ratings) = 2
    /\ users[2].totalRatings = 2
    /\ users[2].averageRating = 28

\* the stored ratings of the swap request and rater of request proc
RatingsOfPair(proc) ==
    {i \in 1..Len(ratings) : /\ ratings[i].swapRequest = proc.body.swapRequestId
                              /\ ratings[i].rater = proc.userId}

\* C20: in every interleaving of POST /api/ratings requests at most one
\* rating is stored for a (swapRequest, rater) pair; an attempt for a pair
\* that has a rating of another request is answered with an error and
\* stores nothing, and only a request that stored its rating is answered 201.
C20_OneRatingPerPair ==
    /\ \A i, j \in 1..Len(ratings) :
          (ratings[i].swapRequest = ratings[j].swapRequest
           /\ ratings[i].rater = ratings[j].rater) => i = j
    /\ \A p \in DOMAIN procs :
          procs[p].pc = "done" =>
             /\ procs[p].status = 201 <=> procs[p].newRating \in RatingsOfPair(procs[p])
             /\ procs[p].status # 201
                  => procs[p].newRating = 0 /\ procs[p].status \in {400, 403, 404}
             /\ RatingsOfPair(procs[p]) \ {procs[p].newRating} # {}
                  => procs[p].status = 400 /\ procs[p].newRating = 0

\* two requests of user 1 for swap 1, both past Rating.findOne before either
\* created its rating: one is answered 201, the other 400 by the index
C20_Witness ==
    /\ procs[1].pc = "done" /\ procs[2].pc = "done"
    /\ procs[1].userId = procs[2].userId
    /\ procs[1].body.swapRequestId = procs[2].body.swapRequestId
    /\ procs[1].status = 201
    /\ procs[2].status = 400
    /\ procs[2].body.rating = 10
    /\ Len(ratings) = 1

\* C26: POST /api/ratings stores a rating only when the swap request it names
\* exists, is completed and has the caller as requester or provider; a
\* request refused for one of these reasons (404, 400, 403) stores no rating
\* and changes no user's averageRating or totalRatings.
Refused(proc) ==
    /\ proc.pc = "done"
    /\ LET swapRequest == findById(swapRequests, proc.body.swapRequestId)
       IN  \/ swapRequest = null /\ proc.status = 404
           \/ swapRequest # null /\ swapRequest.status # "completed" /\ proc.status = 400
           \/ /\ swapRequest # null /\ swapRequest.status = "completed"
              /\ proc.userId \notin {swapRequest.requester, swapRequest.provider}
              /\ proc.status = 403

C26_StoredOnlyWhenAllowed ==
    [][/\ \A i \in 1..Len(ratings') :
             i > Len(ratings) =>
                 LET swapRequest == findById(swapRequests, ratings'[i].swapRequest)
                 IN  /\ swapRequest # null
                     /\ swapRequest.status = "completed"
                     /\ ratings'[i].rater \in {swapRequest.requester, swapRequest.provider}
       /\ \A p \in 1..MaxProcs :
             (procs[p] = Idle /\ procs'[p] # Idle) =>
                 LET swapRequest == findById(swapRequests, procs'[p].body.swapRequestId)
                     allowed == /\ swapRequest # null
                                /\ swapRequest.status = "completed"
                                /\ procs'[p].userId \in {swapRequest.requester,
                                                         swapRequest.provider}
                 IN  /\ Refused(procs'[p]) <=> ~allowed
                     /\ ratings' = ratings
                     /\ users' = users
       /\ \A p \in 1..MaxProcs :
             Refused(procs[p]) => procs[p].newRating = 0]_vars

\* a rating was stored for a completed swap by one of its two users, and the
\* three refusals were each answered
C26_Witness ==
    /\ Len(ratings) = 1
    /\ procs[1].pc = "done" /\ procs[1].status = 201
    /\ Refused(procs[2]) /\ procs[2].status = 403

C26_NotFoundWitness == Refused(procs[1]) /\ procs[1].status = 404

C26_NotCompletedWitness == Refused(procs[1]) /\ procs[1].status = 400

\* C27: for every stored rating, the rated user is the participant of the
\* rated swap request other than the rater: never the rater, never a user who
\* is neither requester nor provider of that swap.
C27_RatedIsOtherParticipant ==
    \A i \in 1..Len(ratings) :
        LET swapRequest == findById(swapRequests, ratings[i].swapRequest)
        IN  /\ swapRequest # null
            /\ ratings[i].rated # ratings[i].rater
            /\ ratings[i].rated \in {swapRequest.requester, swapRequest.provider}

\* the ratings stored whose rated user is userId, as their values
RatingsOf(userId) ==
    LET docs == SelectSeq(ratings, LAMBDA r : r.rated = userId)
    IN  [i \in 1..Len(docs) |-> docs[i].rating]

\* C28: once no POST /api/ratings request is in flight, each user's
\* totalRatings is the number of stored ratings that rate them and their
\* averageRating is the mean of these ratings rounded to one decimal.
C28_AggregateMatchesStore ==
    (\A p \in 1..MaxProcs : procs[p].pc \in {"idle", "done"}) =>
        \A userId \in 1..Len(users) :
            /\ users[userId].totalRatings = Len(RatingsOf(userId))
            /\ RatingsOf(userId) # <<>> =>
                   users[userId].averageRating = RoundedAverage(RatingsOf(userId))

----------------------------------------------------------------------------
(* Properties of the swap requests, checked under SpecSwaps *)

\* the request in slot p is the one that takes the step: its position changes
Acts(p) == procs'[p] # procs[p]

\* the request in slot p is answered by this step, by its checks
RefusedBy(p, op) ==
    /\ procs[p] = Idle /\ procs'[p] # Idle
    /\ procs'[p].op = op /\ procs'[p].status \in {400, 403, 404}

\* the swap request id is stored before and after the step
Kept(id) == swapRequests[id] # null /\ swapRequests'[id] # null

\* C21: a swap request is removed only by DELETE /api/swaps/:id of its
\* requester and only while its status is pending at the moment of removal,
\* in every interleaving with accept and reject; a delete answered 403 or 400
\* leaves the request stored with its status.
C21_DeleteOnlyPendingByRequester ==
    [][/\ \A id \in 1..Len(swapRequests) :
             (swapRequests[id] # null /\ swapRequests'[id] = null) =>
                 /\ swapRequests[id].status = "pending"
                 /\ \E p \in 1..MaxProcs :
                        /\ Acts(p) /\ procs[p] # Idle /\ procs[p].op = "delete"
                        /\ procs[p].userId = swapRequests[id].requester
       /\ \A p \in 1..MaxProcs :
             (RefusedBy(p, "delete") /\ procs'[p].status \in {400, 403}) =>
                 swapRequests' = swapRequests]_vars

\* C22: accept (reject) changes the status to accepted (rejected) and sets
\* responseDate only when the caller is the provider and the status is
\* pending; a request answered 404, 403 or 400 leaves status and
\* responseDate as they were.
C22_RespondOnlyPendingByProvider ==
    [][/\ \A id \in 1..Len(swapRequests) :
             (/\ Kept(id)
              /\ \/ /\ swapRequests'[id].status # swapRequests[id].status
                    /\ swapRequests'[id].status \in {"accepted", "rejected"}
                 \/ swapRequests'[id].responseDate # swapRequests[id].responseDate) =>
                 /\ swapRequests[id].status = "pending"
                 /\ \E p \in 1..MaxProcs :
                        /\ Acts(p) /\ procs[p] # Idle
                        /\ procs[p].userId = swapRequests[id].provider
                        /\ \/ procs[p].op = "accept"
                              /\ swapRequests'[id].status = "accepted"
                           \/ procs[p].op = "reject"
                              /\ swapRequests'[id].status = "rejected"
       /\ \A p \in 1..MaxProcs :
             (RefusedBy(p, "accept") \/ RefusedBy(p, "reject")) =>
                 swapRequests' = swapRequests]_vars

\* C23: a swap request becomes completed only from accepted and only by a
\* complete request of its requester or provider, and it becomes accepted
\* only by an accept request of its provider, so that a completed request
\* was accepted by its provider before; a complete request on a swap that is
\* not accepted leaves it unchanged.
C23_CompletedOnlyFromAccepted ==
    [][/\ \A id \in 1..Len(swapRequests) :
             Kept(id) =>
                 /\ (/\ swapRequests'[id].status = "completed"
                     /\ swapRequests[id].status # "completed") =>
                        /\ swapRequests[id].status = "accepted"
                        /\ \E p \in 1..MaxProcs :
                               /\ Acts(p) /\ procs[p] # Idle /\ procs[p].op = "complete"
                               /\ procs[p].userId \in {swapRequests[id].requester,
                                                      swapRequests[id].provider}
                 /\ (/\ swapRequests'[id].status = "accepted"
                     /\ swapRequests[id].status # "accepted") =>
                        \E p \in 1..MaxProcs :
                            /\ Acts(p) /\ procs[p] # Idle /\ procs[p].op = "accept"
                            /\ procs[p].userId = swapRequests[id].provider
       /\ \A p \in 1..MaxProcs :
             RefusedBy(p, "complete") => swapRequests' = swapRequests]_vars

\* the requests answered with success that responded to swap request id
Responded(id) ==
    {p \in 1..MaxProcs : /\ procs[p] # Idle /\ procs[p].pc = "done"
                         /\ procs[p].op \in {"accept", "reject"}
                         /\ procs[p].id = id /\ procs[p].status = 200}

\* C24: a pending swap request is responded to at most once: of the accept
\* and reject requests of the provider for one request, concurrent ones
\* included, at most one is answered with success, and the status is then
\* not the one the other request would have set.
C24_RespondedOnce ==
    \A id \in 1..Len(swapRequests) :
        /\ Cardinality(Responded(id)) <= 1
        /\ \A p \in Responded(id) :
              swapRequests[id] # null =>
                  swapRequests[id].status #
                      (IF procs[p].op = "accept" THEN "rejected" ELSE "accepted")

\* C25: completed, rejected and cancelled are terminal: no operation changes
\* the status of a swap request that has one of them, or removes it.
C25_TerminalStatuses ==
    [][\A id \in 1..Len(swapRequests) :
          (/\ swapRequests[id] # null
           /\ swapRequests[id].status \in {"completed", "rejected", "cancelled"}) =>
              /\ swapRequests'[id] # null
              /\ swapRequests'[id].status = swapRequests[id].status]_vars

\* C29: POST /api/swaps/request stores a swap request only when the provider
\* exists and is not the requester, the provider offers the skill wanted and
\* the requester offers the skill offered, names compared ignoring case; a
\* stored request starts pending with a provider other than its requester,
\* and a refused request stores nothing.
C29_StoredOnlyWhenValid ==
    [][/\ \A id \in 1..Len(swapRequests') :
             id > Len(swapRequests) =>
                 LET doc == swapRequests'[id]
                 IN  /\ doc.provider \in 1..Len(users)
                     /\ doc.provider # doc.requester
                     /\ \E skill \in 1..Len(users[doc.provider].skillsOffered) :
                            EqualIgnoringCase(users[doc.provider].skillsOffered[skill].name,
                                              doc.skillWanted.name)
                     /\ \E skill \in 1..Len(users[doc.requester].skillsOffered) :
                            EqualIgnoringCase(users[doc.requester].skillsOffered[skill].name,
                                              doc.skillOffered.name)
                     /\ doc.status = "pending"
       /\ \A p \in 1..MaxProcs :
             (/\ Acts(p) /\ procs'[p] # Idle /\ procs'[p].op = "request"
              /\ procs'[p].status \in {400, 404}) =>
                 swapRequests' = swapRequests]_vars

====
